---- MODULE Spec2Model ----
(***************************************************************************)
(* Model of the tiered company search of lambda_search_engine.py:          *)
(* CompanySearchEngine.process_batch fans a batch of names out to          *)
(* search_company, which fans each name out to one _search_tier query per  *)
(* tier, waits for all of them (asyncio.gather) and aggregates the hits.   *)
(*                                                                         *)
(* Numbers.  The code computes score = base + quality / 2 with Python's    *)
(* true division, so a score may end in .5.  Every score and confidence    *)
(* of the model is held in HALF-POINTS (twice the Python value): 95 is     *)
(* 190, 97.5 is 195, the cap 100 is 200.  IsWholeNumber tells whether the  *)
(* Python value is a whole number.                                         *)
(*                                                                         *)
(* Optional values.  A dict key that may be missing is a sequence: <<>>    *)
(* when the key is missing, <<v>> when it holds v (an EMPLOYEE_COUNT of    *)
(* None reads as 0, like a missing one).  A missing or empty DOMAIN_NAME   *)
(* is the empty string.                                                    *)
(***************************************************************************)
EXTENDS Integers, Sequences, FiniteSets, TLC

VARIABLES
    company_names,  \* process_batch's argument: the sequence of raw names
    backend,        \* per name: how the search backend answers its queries
    pc,             \* process_batch: "idle", "gathering", "returned", "raised"
    tasks,          \* per name: the tier names of search_company's tasks list
    resp,           \* per name, per task: what index.search answered
    tier_out,       \* per name, per task: what _search_tier returned
    status,         \* per name: search_company is "new", "waiting", "done", "raised"
    result,         \* per name: the dict search_company returned
    completion,     \* the names' indices in the order search_company finished
    batch_result,   \* the list process_batch returned
    row,            \* enrichment: the raw record (or text) being processed
    derived,        \* enrichment: what each code path derived from row
    documents,      \* load_companies: len(documents)
    task_uids,      \* load_companies: len(task_uids), the batches queued
    completed,      \* load_companies: completed
    now,            \* load_companies: seconds since last_check was taken
    current_docs,   \* load_companies: the document count last read
    last_growth,    \* the time at which the count read last grew
    wait_pc         \* load_companies: "idle", "waiting", or why the loop ended

vars == <<company_names, backend, pc, tasks, resp, tier_out, status, result,
          completion, batch_result>>

\* the state of the enrichment functions
enrich_vars == <<row, derived>>

\* the state of load_companies' wait loop
load_vars == <<documents, task_uids, completed, now, current_docs,
               last_growth, wait_pc>>

all_vars == <<vars, enrich_vars, load_vars>>

(***************************************************************************)
(* Bounds of the model.                                                    *)
(***************************************************************************)
\* the longest batch of names
MaxBatch == 2
\* the most hits the backend returns to one name, summed over its tiers
MaxTotalHits == 2

(***************************************************************************)
(* Text: a string is a sequence of one-character strings; "(R)" stands for *)
(* one non-ASCII character such as the registered sign, "(K)" for the      *)
(* Kelvin sign U+212A, a non-ASCII character whose str.lower() is the      *)
(* ASCII letter k.  A raw name is a record [kind, chars]: kind "str" for   *)
(* text, "none" for None or NaN, "num" for a number.                       *)
(***************************************************************************)
UpperLetters ==
    <<"A","B","C","D","E","F","G","H","I","J","K","L","M",
      "N","O","P","Q","R","S","T","U","V","W","X","Y","Z">>

LowerLetters ==
    <<"a","b","c","d","e","f","g","h","i","j","k","l","m",
      "n","o","p","q","r","s","t","u","v","w","x","y","z">>

NonAscii == {"(R)", "(K)"}

Whitespace == {" "}

Str(chars) == [kind |-> "str", chars |-> chars]

NoneName == [kind |-> "none", chars |-> <<>>]

\* str.lower(), one character
LowerChar(c) ==
    IF c = "(K)" THEN "k"
    ELSE IF \E i \in 1..Len(UpperLetters) : UpperLetters[i] = c
    THEN LowerLetters[CHOOSE i \in 1..Len(UpperLetters) : UpperLetters[i] = c]
    ELSE c

\* str.upper(), one character
UpperChar(c) ==
    IF \E i \in 1..Len(LowerLetters) : LowerLetters[i] = c
    THEN UpperLetters[CHOOSE i \in 1..Len(LowerLetters) : LowerLetters[i] = c]
    ELSE c

Lower(s) == [i \in 1..Len(s) |-> LowerChar(s[i])]

Upper(s) == [i \in 1..Len(s) |-> UpperChar(s[i])]

\* str.strip(): leading and trailing whitespace removed
RECURSIVE LStrip(_)
LStrip(s) ==
    IF s # <<>> /\ Head(s) \in Whitespace THEN LStrip(Tail(s)) ELSE s

RECURSIVE RStrip(_)
RStrip(s) ==
    IF s # <<>> /\ s[Len(s)] \in Whitespace
    THEN RStrip(SubSeq(s, 1, Len(s) - 1))
    ELSE s

Strip(s) == RStrip(LStrip(s))

\* text.encode('ascii', errors='ignore').decode('ascii')
AsciiOnly(s) == SelectSeq(s, LAMBDA c : c \notin NonAscii)

\* clean_text of the query path: lower, strip, then drop non-ASCII
clean_text(text) ==
    IF text.kind # "str" \/ text.chars = <<>>
    THEN <<>>
    ELSE AsciiOnly(Strip(Lower(text.chars)))

\* the digit class of one upper-case character of the remainder, "" for a
\* deleted vowel, the character itself when no class holds it
PhoneticClass(c) ==
    IF c \in {"A","E","I","O","U","Y"} THEN ""
    ELSE IF c \in {"B","F","P","V"} THEN "1"
    ELSE IF c \in {"C","G","J","K","Q","S","X","Z"} THEN "2"
    ELSE IF c \in {"D","T"} THEN "3"
    ELSE IF c = "L" THEN "4"
    ELSE IF c \in {"M","N"} THEN "5"
    ELSE IF c = "R" THEN "6"
    ELSE c

\* the loop removing adjacent duplicates
RECURSIVE Squeeze(_, _)
Squeeze(s, last) ==
    IF s = <<>> THEN <<>>
    ELSE IF Head(s) # last
         THEN <<Head(s)>> \o Squeeze(Tail(s), Head(s))
         ELSE Squeeze(Tail(s), Head(s))

\* get_phonetic, applied to a string (a sequence of characters)
get_phonetic(chars) ==
    IF chars = <<>> THEN <<>>
    ELSE LET text == Upper(clean_text(Str(chars)))
         IN  IF text = <<>> THEN <<>>
             ELSE LET mapped == [i \in 1..(Len(text) - 1) |->
                                     PhoneticClass(text[i + 1])]
                      remainder == SelectSeq(mapped, LAMBDA c : c # "")
                  IN  <<text[1]>> \o Squeeze(remainder, "")

(***************************************************************************)
(* Tiers.  search_company appends one _search_tier task per tier, in the   *)
(* order Tier 1, 2, 3, 4, 5, 7; the Tier 4 task only when the phonetic     *)
(* code is not empty.                                                      *)
(***************************************************************************)
Tier1 == "Tier 1 (Exact)"

Tier2 == "Tier 2 (Domain Exact)"

Tier3 == "Tier 3 (Typo)"

Tier4 == "Tier 4 (Phonetic)"

Tier5 == "Tier 5 (N-gram)"

Tier7 == "Tier 7 (Alt Names)"

TierNames == {Tier1, Tier2, Tier3, Tier4, Tier5, Tier7}

\* TaskTiers with a seeded fault: the Tier 4 task is appended whatever the
\* phonetic code
TaskTiersAlwaysPhonetic(phonetic_code) ==
    <<Tier1, Tier2, Tier3, Tier4, Tier5, Tier7>>

\* the tasks list search_company builds, as the tier names in append order
TaskTiers(phonetic_code) ==
    <<Tier1, Tier2, Tier3>>
        \o (IF phonetic_code # <<>> THEN <<Tier4>> ELSE <<>>)
        \o <<Tier5, Tier7>>

\* the 'limit' search parameter of each tier's query
Limit(tier) ==
    CASE tier = Tier1 -> 1
      [] tier = Tier2 -> 1
      [] tier = Tier3 -> 3
      [] tier = Tier4 -> 3
      [] tier = Tier5 -> 5
      [] tier = Tier7 -> 1

\* the query text of each tier: the phonetic code for Tier 4, else the name
QueryText(tier, clean_name, phonetic_code) ==
    IF tier = Tier4 THEN phonetic_code ELSE clean_name

(***************************************************************************)
(* Scoring (half-points).                                                  *)
(***************************************************************************)
\* dict.get(key, default) on an optional value
Get(opt, default) == IF opt = <<>> THEN default ELSE opt[1]

\* the if/elif chain on the tier name: the tier's base score
TierBase(tier) ==
    IF tier = Tier1 THEN 2 * 95
    ELSE IF tier = Tier2 THEN 2 * 90
    ELSE IF tier = Tier7 THEN 2 * 88
    ELSE IF tier = Tier3 THEN 2 * 80
    ELSE IF tier = Tier4 THEN 2 * 75
    ELSE IF tier = Tier5 THEN 2 * 70
    ELSE 0

\* score += quality / 2
QualityBoost(hit) == Get(hit.metadata_quality_score, 0)

\* SizeBoost with a seeded fault: the thresholds are inclusive
SizeBoostInclusive(hit) ==
    LET emps == Get(hit.EMPLOYEE_COUNT, 0)
    IN  IF emps >= 10000 THEN 2 * 10
        ELSE IF emps >= 1000 THEN 2 * 5
        ELSE 0

\* the size boost: +10 above 10000 employees, +5 above 1000
SizeBoost(hit) ==
    LET emps == Get(hit.EMPLOYEE_COUNT, 0)
    IN  IF emps > 10000 THEN 2 * 10
        ELSE IF emps > 1000 THEN 2 * 5
        ELSE 0

Min(a, b) == IF a <= b THEN a ELSE b

\* min(score, 100)
CapScore(score) == Min(score, 2 * 100)

\* the _match_score search_company gives a newly recorded candidate
MatchScore(hit) ==
    CapScore(TierBase(hit._match_tier) + QualityBoost(hit) + SizeBoost(hit))

\* whether a half-point value is a whole number of points
IsWholeNumber(score) == score % 2 = 0

(***************************************************************************)
(* _search_tier: the backend's answer to one query is [state, hits] with   *)
(* state "pending", "hits" or "error"; the task's outcome is [state, hits] *)
(* with state "pending", "returned" or "raised".                           *)
(***************************************************************************)
PendingResp == [state |-> "pending", hits |-> <<>>]

ErrorResp == [state |-> "error", hits |-> <<>>]

HitsResp(hits) == [state |-> "hits", hits |-> hits]

PendingOut == [state |-> "pending", hits |-> <<>>]

\* the loop tagging each hit with its tier and a zero score
TagHits(hits, tier_name) ==
    [n \in 1..Len(hits) |->
        [company_name_cleaned_ascii |-> hits[n].company_name_cleaned_ascii,
         DOMAIN_NAME |-> hits[n].DOMAIN_NAME,
         EMPLOYEE_COUNT |-> hits[n].EMPLOYEE_COUNT,
         metadata_quality_score |-> hits[n].metadata_quality_score,
         _match_tier |-> tier_name,
         _match_score |-> 0]]

\* SearchTier with a seeded fault: the except clause re-raises
SearchTierReraises(answer, tier_name) ==
    IF answer.state = "error"
    THEN [state |-> "raised", hits |-> <<>>]
    ELSE [state |-> "returned", hits |-> TagHits(answer.hits, tier_name)]

\* _search_tier resumed with the backend's answer: the tagged hits, or the
\* empty list when index.search raised
SearchTier(answer, tier_name) ==
    IF answer.state = "error"
    THEN [state |-> "returned", hits |-> <<>>]
    ELSE [state |-> "returned", hits |-> TagHits(answer.hits, tier_name)]

(***************************************************************************)
(* Aggregation and ranking.  all_candidates is a dict keyed by domain; a   *)
(* dict keeps insertion order, so it is a sequence of candidates here.     *)
(***************************************************************************)
\* results_list flattened: the hits in the order of the two nested loops
RECURSIVE Flatten(_)
Flatten(lists) ==
    IF lists = <<>> THEN <<>> ELSE Head(lists) \o Flatten(Tail(lists))

HasDomain(cands, domain) ==
    \E n \in 1..Len(cands) : cands[n].DOMAIN_NAME = domain

\* AddHit with a seeded fault: a hit for a recorded domain replaces the candidate
AddHitOverwrites(cands, hit) ==
    IF hit.DOMAIN_NAME = "" THEN cands
    ELSE IF HasDomain(cands, hit.DOMAIN_NAME)
    THEN [n \in 1..Len(cands) |->
            IF cands[n].DOMAIN_NAME = hit.DOMAIN_NAME
            THEN [hit EXCEPT !._match_score = MatchScore(hit)]
            ELSE cands[n]]
    ELSE Append(cands, [hit EXCEPT !._match_score = MatchScore(hit)])

\* AddHit with a seeded fault: hits without a domain are recorded too
AddHitKeepsNoDomain(cands, hit) ==
    IF HasDomain(cands, hit.DOMAIN_NAME) THEN cands
    ELSE Append(cands, [hit EXCEPT !._match_score = MatchScore(hit)])

\* AddHit with a seeded fault: the score is not capped
AddHitNoCap(cands, hit) ==
    IF hit.DOMAIN_NAME = "" THEN cands
    ELSE IF HasDomain(cands, hit.DOMAIN_NAME) THEN cands
    ELSE Append(cands,
           [hit EXCEPT !._match_score =
               TierBase(hit._match_tier) + QualityBoost(hit) + SizeBoost(hit)])

\* the body of the inner loop: skip a hit without a domain, skip a domain
\* already recorded, else record the hit with its score
AddHit(cands, hit) ==
    IF hit.DOMAIN_NAME = "" THEN cands
    ELSE IF HasDomain(cands, hit.DOMAIN_NAME) THEN cands
    ELSE Append(cands, [hit EXCEPT !._match_score = MatchScore(hit)])

\* all_candidates after the first n hits of the loops
RECURSIVE CandidatesAfter(_, _)
CandidatesAfter(hits, n) ==
    IF n = 0 THEN <<>> ELSE AddHit(CandidatesAfter(hits, n - 1), hits[n])

\* all_candidates when the loops have finished
AllCandidates(results_list) ==
    LET hits == Flatten(results_list) IN CandidatesAfter(hits, Len(hits))

\* one insertion of a stable sort by _match_score, descending: c goes after
\* every candidate whose score is at least its own
InsertByScore(sorted, c) ==
    LET ahead == Cardinality({n \in 1..Len(sorted) :
                                 sorted[n]._match_score >= c._match_score})
    IN  SubSeq(sorted, 1, ahead) \o <<c>> \o SubSeq(sorted, ahead + 1, Len(sorted))

RECURSIVE SortPrefix(_, _)
SortPrefix(cands, n) ==
    IF n = 0 THEN <<>> ELSE InsertByScore(SortPrefix(cands, n - 1), cands[n])

\* SortedCandidates with a seeded fault: the candidates are left in the order
\* in which they were recorded
SortedCandidatesUnsorted(cands) == cands

\* sorted(all_candidates.values(), key=_match_score, reverse=True)
SortedCandidates(cands) == SortPrefix(cands, Len(cands))

\* the dict returned when no candidate was found
NotFound(raw_name) ==
    [input_name |-> raw_name,
     match_found |-> FALSE,
     confidence |-> 0,
     details |-> "No match in any tier"]

\* the dict returned for the best candidate
Found(raw_name, sorted_candidates) ==
    LET best_match == sorted_candidates[1]
    IN  [input_name |-> raw_name,
         match_found |-> TRUE,
         domain |-> best_match.DOMAIN_NAME,
         company_name |-> best_match.company_name_cleaned_ascii,
         tier |-> best_match._match_tier,
         confidence |-> best_match._match_score,
         candidates_found |-> Len(sorted_candidates)]

\* search_company from the gathered results_list to its return value
SearchResult(raw_name, results_list) ==
    LET sorted_candidates == SortedCandidates(AllCandidates(results_list))
    IN  IF sorted_candidates = <<>>
        THEN NotFound(raw_name)
        ELSE Found(raw_name, sorted_candidates)

(***************************************************************************)
(* The search backend (index.search), the environment of the program.      *)
(* backend[i] says how it answers the queries of name i:                   *)
(*   "any"    any hit list within the query's limit, or an error;          *)
(*   "index"  the hits of the reference index below, never an error;       *)
(*   "down"   an error, for every query of that name.                      *)
(***************************************************************************)
Hit(name, domain, emps, quality) ==
    [company_name_cleaned_ascii |-> name,
     DOMAIN_NAME |-> domain,
     EMPLOYEE_COUNT |-> emps,
     metadata_quality_score |-> quality]

\* the hits the backend may return: two documents per domain, which differ
\* in employee count and quality score (both missing; 1000 and 5; 10000 and
\* 20; 10001 and 45), and one document without a domain
HitUniverse ==
    { Hit("ab", "ab.com", <<>>, <<>>),
      Hit("ab", "ab.com", <<10001>>, <<45>>),
      Hit("abe", "abe.com", <<1000>>, <<5>>),
      Hit("abe", "abe.com", <<10000>>, <<20>>),
      Hit("nodomain", "", <<10001>>, <<45>>) }

HitLists(n) == UNION { [1..m -> HitUniverse] : m \in 0..n }

\* the reference index of the batch runs: what each tier's query finds (an
\* empty query is a placeholder search, which finds documents too)
IndexSearch(tier, query) ==
    IF tier = Tier1 /\ query = <<"a","b">>
        THEN <<Hit("ab", "ab.com", <<1000>>, <<5>>)>>
    ELSE IF tier = Tier3 /\ query = <<"a","b">>
        THEN <<Hit("ab", "ab.com", <<1000>>, <<5>>),
               Hit("abe", "abe.com", <<10001>>, <<45>>)>>
    ELSE IF tier = Tier4 /\ query = <<"A","1">>
        THEN <<Hit("abe", "abe.com", <<10001>>, <<45>>)>>
    ELSE IF tier = Tier5 /\ query = <<>>
        THEN <<Hit("nodomain", "", <<10001>>, <<45>>),
               Hit("abe", "abe.com", <<>>, <<20>>)>>
    ELSE <<>>

(***************************************************************************)
(* The state machine.                                                      *)
(***************************************************************************)
Names == 1..Len(company_names)

Tasks(i) == 1..Len(tasks[i])

clean_name(i) == clean_text(company_names[i])

phonetic_code(i) == get_phonetic(clean_name(i))

RECURSIVE HitCount(_, _)
HitCount(answers, n) ==
    IF n = 0 THEN 0 ELSE Len(answers[n].hits) + HitCount(answers, n - 1)

\* the hits the backend has returned to name i so far
HitsSoFar(i) == HitCount(resp[i], Len(resp[i]))

\* the names a single search is run for
SearchNames == { Str(<<"A","b">>), Str(<<>>) }

\* the i-th name of a batch: a name that cleans to the empty string (no
\* phonetic code, no Tier 4 query) at the odd places, "Ab" at the even ones
BatchName(i) == IF i % 2 = 1 THEN Str(<<"(R)", " ">>) ELSE Str(<<"A","b">>)

\* no record is being enriched
EnrichIdle ==
    /\ row = <<>>
    /\ derived = <<>>

\* load_companies is not running
LoadIdle ==
    /\ documents = 0
    /\ task_uids = 0
    /\ completed = 0
    /\ now = 0
    /\ current_docs = 0
    /\ last_growth = 0
    /\ wait_pc = "idle"

\* process_batch has not been called
InitSearch ==
    /\ pc = "idle"
    /\ tasks = [i \in Names |-> <<>>]
    /\ resp = [i \in Names |-> <<>>]
    /\ tier_out = [i \in Names |-> <<>>]
    /\ status = [i \in Names |-> "new"]
    /\ result = [i \in Names |-> <<>>]
    /\ completion = <<>>
    /\ batch_result = <<>>

InitProgram ==
    /\ EnrichIdle
    /\ LoadIdle
    /\ InitSearch

\* one name, against a backend that may answer anything
Init ==
    /\ company_names \in { <<name>> : name \in SearchNames }
    /\ backend = [i \in Names |-> "any"]
    /\ InitProgram

\* a batch of names against the reference index, down for at most one name
InitBatch ==
    /\ company_names \in { [i \in 1..n |-> BatchName(i)] : n \in 1..MaxBatch }
    /\ \E down \in SUBSET Names :
          /\ Cardinality(down) <= 1
          /\ backend = [i \in Names |-> IF i \in down THEN "down" ELSE "index"]
    /\ InitProgram

\* process_batch up to its gather: every search_company runs up to its own
\* gather, every _search_tier up to its await of index.search
ProcessBatch ==
    /\ pc = "idle"
    /\ pc' = "gathering"
    /\ tasks' = [i \in Names |-> TaskTiers(phonetic_code(i))]
    /\ resp' = [i \in Names |->
                  [k \in 1..Len(TaskTiers(phonetic_code(i))) |-> PendingResp]]
    /\ tier_out' = [i \in Names |->
                  [k \in 1..Len(TaskTiers(phonetic_code(i))) |-> PendingOut]]
    /\ status' = [i \in Names |-> "waiting"]
    /\ UNCHANGED <<company_names, backend, result, completion, batch_result>>

\* _search_tier resumed with answer, for task k of name i
TierResumes(i, k, answer) ==
    /\ resp' = [resp EXCEPT ![i][k] = answer]
    /\ tier_out' = [tier_out EXCEPT ![i][k] = SearchTier(answer, tasks[i][k])]
    /\ UNCHANGED <<company_names, backend, pc, tasks, status, result,
                   completion, batch_result>>

\* index.search returns hits to task k of name i
TierAnswers(i, k) ==
    /\ pc = "gathering"
    /\ resp[i][k].state = "pending"
    /\ backend[i] \in {"any", "index"}
    /\ \E hits \in
          IF backend[i] = "any"
          THEN HitLists(Min(Limit(tasks[i][k]), MaxTotalHits - HitsSoFar(i)))
          ELSE {IndexSearch(tasks[i][k],
                    QueryText(tasks[i][k], clean_name(i), phonetic_code(i)))} :
          TierResumes(i, k, HitsResp(hits))

\* index.search raises in task k of name i
TierFails(i, k) ==
    /\ pc = "gathering"
    /\ resp[i][k].state = "pending"
    /\ backend[i] \in {"any", "down"}
    /\ TierResumes(i, k, ErrorResp)

\* AllTiersDone with a seeded fault: gather returns when the first task is done
AllTiersDoneFirst(i) ==
    \E k \in Tasks(i) : tier_out[i][k].state # "pending"

\* asyncio.gather(*tasks) of search_company is ready: every task is done
AllTiersDone(i) ==
    \A k \in Tasks(i) : tier_out[i][k].state # "pending"

\* results_list: what gather returns, the tasks' results in task order
ResultsList(i) == [k \in Tasks(i) |-> tier_out[i][k].hits]

\* search_company from its gather to its return
SearchCompany(i) ==
    /\ pc = "gathering"
    /\ status[i] = "waiting"
    /\ AllTiersDone(i)
    /\ IF \E k \in Tasks(i) : tier_out[i][k].state = "raised"
       THEN /\ status' = [status EXCEPT ![i] = "raised"]
            /\ UNCHANGED result
       ELSE /\ status' = [status EXCEPT ![i] = "done"]
            /\ result' = [result EXCEPT ![i] =
                            <<SearchResult(company_names[i], ResultsList(i))>>]
    /\ completion' = Append(completion, i)
    /\ UNCHANGED <<company_names, backend, pc, tasks, resp, tier_out,
                   batch_result>>

\* BatchResults with a seeded fault: the results in the order the names finished
BatchResultsByCompletion ==
    [n \in 1..Len(completion) |-> result[completion[n]][1]]

\* BatchResults with a seeded fault: the not-found results are left out
BatchResultsOnlyFound ==
    SelectSeq([i \in Names |-> result[i][1]], LAMBDA r : r.match_found)

\* results: what gather returns to process_batch, in the order of the names
BatchResults == [i \in Names |-> result[i][1]]

\* process_batch from its gather to its return
ProcessBatchReturns ==
    /\ pc = "gathering"
    /\ \A i \in Names : status[i] \in {"done", "raised"}
    /\ IF \E i \in Names : status[i] = "raised"
       THEN /\ pc' = "raised"
            /\ UNCHANGED batch_result
       ELSE /\ pc' = "returned"
            /\ batch_result' = BatchResults
    /\ UNCHANGED <<company_names, backend, tasks, resp, tier_out, status,
                   result, completion>>

Next ==
    /\ \/ ProcessBatch
       \/ \E i \in Names : \E k \in Tasks(i) : TierAnswers(i, k)
       \/ \E i \in Names : \E k \in Tasks(i) : TierFails(i, k)
       \/ \E i \in Names : SearchCompany(i)
       \/ ProcessBatchReturns
    /\ UNCHANGED <<enrich_vars, load_vars>>

Spec == Init /\ [][Next]_all_vars

SpecBatch == InitBatch /\ [][Next]_all_vars

(***************************************************************************)
(* The index-building path: data_preprocessing.py (process_chunk) and      *)
(* pipeline_s3_to_meili.py (process_dataframe) each carry their own copy   *)
(* of clean_text_basic, get_ngrams, simple_phonetic and                    *)
(* calc_quality_score.  The text functions of the two files are the same   *)
(* code; the two calc_quality_score differ.                                *)
(***************************************************************************)
MaxTextLen == 3

DefaultMinLen == 3

DefaultMaxLen == 15

\* clean_text_basic: drop non-ASCII, then lower and strip
clean_text_basic(text) ==
    IF text.kind # "str" THEN <<>>
    ELSE Strip(Lower(AsciiOnly(text.chars)))

\* the first + reduced of simple_phonetic and get_phonetic, for a non-empty
\* upper-case text
PhoneticOf(text) ==
    LET mapped == [i \in 1..(Len(text) - 1) |-> PhoneticClass(text[i + 1])]
        remainder == SelectSeq(mapped, LAMBDA c : c # "")
    IN  <<text[1]>> \o Squeeze(remainder, "")

simple_phonetic(text) ==
    IF text.kind # "str" \/ text.chars = <<>> THEN <<>>
    ELSE LET upper == Upper(clean_text_basic(text))
         IN  IF upper = <<>> THEN <<>> ELSE PhoneticOf(upper)

\* get_ngrams with a seeded fault: the range stops one short
get_ngrams_short(text, min_len, max_len) ==
    IF text.kind # "str" \/ text.chars = <<>> THEN <<>>
    ELSE LET t == clean_text_basic(text)
             stop == Min(Len(t), max_len + 1)
         IN  IF Len(t) < min_len THEN <<t>>
             ELSE [n \in 1..(stop - min_len) |-> SubSeq(t, 1, min_len + n - 1)]

\* get_ngrams of the index-building path:
\* [text[:i] for i in range(min_len, min(len(text) + 1, max_len + 1))]
get_ngrams(text, min_len, max_len) ==
    IF text.kind # "str" \/ text.chars = <<>> THEN <<>>
    ELSE LET t == clean_text_basic(text)
             stop == Min(Len(t) + 1, max_len + 1)
         IN  IF Len(t) < min_len THEN <<t>>
             ELSE [n \in 1..(stop - min_len) |-> SubSeq(t, 1, min_len + n - 1)]

\* a column value: NaN (None, NaN or a missing key), or a value
NaN == [kind |-> "none", chars |-> <<>>]

\* pd.notna
notna(v) == v.kind # "none"

\* a number held in a column
Num(n) == [kind |-> "num", chars |-> <<>>, n |-> n]

\* 'PDL' in src
Contains(s, sub) ==
    \E i \in 1..(Len(s) - Len(sub) + 1) : SubSeq(s, i, i + Len(sub) - 1) = sub

\* str(row.get('SOURCE', '')).upper(): None gives "NONE"
SourceUpper(v) ==
    IF v.kind = "str" THEN Upper(v.chars) ELSE <<"N","O","N","E">>

PDL == <<"P","D","L">>

BOMBORA == <<"B","O","M","B","O","R","A">>

HGDATA == <<"H","G","D","A","T","A">>

SourcePoints(v) ==
    LET src == SourceUpper(v)
    IN  IF Contains(src, PDL) THEN 20
        ELSE IF Contains(src, BOMBORA) THEN 15
        ELSE IF Contains(src, HGDATA) THEN 10
        ELSE 0

\* the rules the two calc_quality_score share
CommonPoints(r) ==
    SourcePoints(r.SOURCE)
    + (IF notna(r.EMPLOYEE_COUNT) /\ r.EMPLOYEE_COUNT.n > 0 THEN 10 ELSE 0)
    + (IF notna(r.INDUSTRY_CAT_STD) THEN 5 ELSE 0)
    + (IF notna(r.COUNTRY) THEN 2 ELSE 0)
    + (IF notna(r.SIZE_DESC_STD) THEN 3 ELSE 0)

\* calc_quality_score of data_preprocessing.py
calc_quality_score(r) ==
    CommonPoints(r)
    + (IF notna(r.LAST_SEEN_DATE) \/ notna(r.DATE_LAST_VERIFIED) THEN 5 ELSE 0)

\* calc_quality_score of pipeline_s3_to_meili.py
calc_quality_score_pipeline(r) ==
    CommonPoints(r) + (IF notna(r.LAST_SEEN_DATE) THEN 5 ELSE 0)

\* the characters of the texts: an upper-case vowel, a lower-case consonant,
\* whitespace, and the two non-ASCII characters
TextAlphabet == {"A", "b", " ", "(R)", "(K)"}

Texts == UNION { [1..n -> TextAlphabet] : n \in 0..MaxTextLen }

\* what a text column may hold: a string, None/NaN, a number
TextValues == { Str(chars) : chars \in Texts } \cup { NaN, Num(7) }

\* the (min_len, max_len) get_ngrams is called with; the first is the default
NgramParams == { <<DefaultMinLen, DefaultMaxLen>>, <<1, 2>>, <<2, 3>> }

SourceValues ==
    { NaN, Str(PDL), Str(<<"p","d","l">>), Str(BOMBORA), Str(HGDATA),
      Str(HGDATA \o <<",">> \o PDL), Str(<<"x">>) }

\* a column that holds NaN, the empty string, or a value
ColumnValues == { NaN, Str(<<>>), Str(<<"x">>) }

Row(name, source, emps, industry, country, size, seen, verified) ==
    [COMPANY_NAME_CLEANED |-> name,
     DOMAIN_PART |-> name,
     SOURCE |-> source,
     EMPLOYEE_COUNT |-> emps,
     INDUSTRY_CAT_STD |-> industry,
     COUNTRY |-> country,
     SIZE_DESC_STD |-> size,
     LAST_SEEN_DATE |-> seen,
     DATE_LAST_VERIFIED |-> verified]

NothingDerived == [query |-> <<>>, chunk |-> <<>>, dataframe |-> <<>>, ngrams |-> <<>>]

\* the search engine idle, load_companies idle, a record to enrich
InitEnrich ==
    /\ company_names = <<>>
    /\ backend = <<>>
    /\ InitSearch
    /\ LoadIdle
    /\ derived = NothingDerived

\* every text, with fixed metadata
InitText ==
    /\ InitEnrich
    /\ \E name \in TextValues :
          row = Row(name, Str(PDL), Num(5), NaN, NaN, NaN, NaN, NaN)

\* every metadata, with a fixed text
InitQuality ==
    /\ InitEnrich
    /\ \E source \in SourceValues : \E emps \in {NaN, Num(0), Num(5)} :
       \E industry \in ColumnValues : \E country \in ColumnValues :
       \E size \in ColumnValues : \E seen \in ColumnValues :
       \E verified \in ColumnValues :
          row = Row(Str(<<"A","b">>), source, emps, industry, country, size,
                    seen, verified)

\* the query path of search_company: clean_name and phonetic_code
QueryNormalize ==
    /\ derived.query = <<>>
    /\ derived' = [derived EXCEPT !.query =
          <<[clean_name |-> clean_text(row.COMPANY_NAME_CLEANED),
             phonetic_code |->
                 get_phonetic(clean_text(row.COMPANY_NAME_CLEANED))]>>]
    /\ UNCHANGED <<row, vars, load_vars>>

\* the fields both enrichers derive, with the enricher's quality score
Enriched(r, quality) ==
    [company_name_cleaned_ascii |-> clean_text_basic(r.COMPANY_NAME_CLEANED),
     domain_parts_ngram |->
         get_ngrams(r.DOMAIN_PART, DefaultMinLen, DefaultMaxLen),
     domain_phonetic |-> simple_phonetic(r.DOMAIN_PART),
     company_phonetic |-> simple_phonetic(r.COMPANY_NAME_CLEANED),
     metadata_quality_score |-> quality]

\* process_chunk of data_preprocessing.py, on one record
process_chunk ==
    /\ derived.chunk = <<>>
    /\ derived' = [derived EXCEPT !.chunk =
                      <<Enriched(row, calc_quality_score(row))>>]
    /\ UNCHANGED <<row, vars, load_vars>>

\* process_dataframe of pipeline_s3_to_meili.py, on one record
process_dataframe ==
    /\ derived.dataframe = <<>>
    /\ derived' = [derived EXCEPT !.dataframe =
                      <<Enriched(row, calc_quality_score_pipeline(row))>>]
    /\ UNCHANGED <<row, vars, load_vars>>

\* one call of get_ngrams(text, min_len, max_len)
GetNgrams ==
    /\ derived.ngrams = <<>>
    /\ \E p \in NgramParams :
          derived' = [derived EXCEPT !.ngrams =
              <<[min_len |-> p[1], max_len |-> p[2],
                 grams |-> get_ngrams(row.DOMAIN_PART, p[1], p[2])]>>]
    /\ UNCHANGED <<row, vars, load_vars>>

NextEnrich ==
    \/ QueryNormalize
    \/ process_chunk
    \/ process_dataframe
    \/ GetNgrams

SpecText == InitText /\ [][NextEnrich]_all_vars

SpecQuality == InitQuality /\ [][NextEnrich]_all_vars

(***************************************************************************)
(* load_companies of meilisearch_setup.py, from the end of the queuing     *)
(* loop to the end of the wait loop.  Time is in whole seconds since       *)
(* last_check was taken (last_check is assigned once, before the loop,     *)
(* and never again); time.sleep(n) takes n seconds and a get_stats call    *)
(* takes 0..MaxCallSeconds.  last_growth is not a variable of the code: it *)
(* records the time of the last poll whose document count was higher than  *)
(* the count read before.                                                  *)
(***************************************************************************)
batch_size == 10000

PollSleep == 5

ErrorSleep == 10

NoProgressTimeout == 60

MaxBatches == 2

MaxCallSeconds == 1

MaxTime == 100

\* the batches range(0, len(documents), batch_size) makes
BatchCount(docs) == (docs + batch_size - 1) \div batch_size

\* len(documents): whole and half batches
DocumentCounts == { n * (batch_size \div 2) : n \in 0..(2 * MaxBatches) }

\* stats.number_of_documents: any count up to len(documents)
StatCounts(docs) == { c \in DocumentCounts : c <= docs }

\* the queuing loop has ended: some of the batches were queued (add_documents
\* may have failed for the others), completed = 0, last_check = time.time()
InitLoad ==
    /\ company_names = <<>>
    /\ backend = <<>>
    /\ InitSearch
    /\ EnrichIdle
    /\ documents \in DocumentCounts
    /\ task_uids \in 0..BatchCount(documents)
    /\ completed = 0
    /\ now = 0
    /\ current_docs = 0
    /\ last_growth = 0
    /\ wait_pc = "waiting"

\* one iteration of the wait loop in which get_stats returns docs
PollSucceeds(docs) ==
    /\ wait_pc = "waiting"
    /\ completed < task_uids
    /\ \E call \in 0..MaxCallSeconds :
          /\ now + PollSleep + call <= MaxTime
          /\ now' = now + PollSleep + call
    /\ current_docs' = docs
    /\ last_growth' = IF docs > current_docs THEN now' ELSE last_growth
    /\ completed' = IF docs > completed * batch_size
                    THEN docs \div batch_size
                    ELSE completed
    /\ wait_pc' = IF 100 * docs >= 99 * documents THEN "complete"
                  ELSE IF now' > NoProgressTimeout THEN "timeout"
                  ELSE "waiting"
    /\ UNCHANGED <<documents, task_uids, vars, enrich_vars>>

\* one iteration of the wait loop in which get_stats raises: the except
\* branch prints, sleeps and goes back to the loop test
PollFails ==
    /\ wait_pc = "waiting"
    /\ completed < task_uids
    /\ \E call \in 0..MaxCallSeconds :
          /\ now + PollSleep + call + ErrorSleep <= MaxTime
          /\ now' = now + PollSleep + call + ErrorSleep
    /\ UNCHANGED <<documents, task_uids, completed, current_docs, last_growth,
                   wait_pc, vars, enrich_vars>>

\* the loop test fails: completed >= len(task_uids)
LoopEnds ==
    /\ wait_pc = "waiting"
    /\ completed >= task_uids
    /\ wait_pc' = "drained"
    /\ UNCHANGED <<documents, task_uids, completed, now, current_docs,
                   last_growth, vars, enrich_vars>>

NextLoad ==
    \/ \E docs \in StatCounts(documents) : PollSucceeds(docs)
    \/ PollFails
    \/ LoopEnds

SpecLoad == InitLoad /\ [][NextLoad]_all_vars

(***************************************************************************)
(* Properties.                                                             *)
(***************************************************************************)
\* the priority order of the tiers in the specification's table
PriorityOrder == <<Tier1, Tier2, Tier7, Tier3, Tier4, Tier5>>

PriorityRank(tier) == CHOOSE r \in 1..Len(PriorityOrder) : PriorityOrder[r] = tier

\* the tasks of name i whose returned hits mention the domain
TasksReturning(i, domain) ==
    { k \in Tasks(i) :
        \E n \in 1..Len(tier_out[i][k].hits) :
            tier_out[i][k].hits[n].DOMAIN_NAME = domain }

\* the candidates search_company records for name i once its gather is ready
Candidates(i) == AllCandidates(ResultsList(i))

CandidateIndexes(i) == 1..Len(Candidates(i))

Gathered(i) == tasks[i] # <<>> /\ AllTiersDone(i)

Returned(i) == status[i] = "done"

\* C1: every recorded candidate carries the tier that comes first, in the
\* priority order 1, 2, 7, 3, 4, 5, among the tiers that returned its domain
\* (so a domain returned by Tier 7 and Tier 3 is a Tier 7 candidate), and its
\* score starts from that tier's base.
C1_MergeInPriorityOrder ==
    \A i \in Names : Gathered(i) =>
        \A m \in CandidateIndexes(i) :
            LET c == Candidates(i)[m]
            IN  \A k \in TasksReturning(i, c.DOMAIN_NAME) :
                    PriorityRank(c._match_tier) <= PriorityRank(tasks[i][k])

\* the hit lists of name i with every failed tier's list taken as empty
HitsWithoutFailed(i) ==
    [k \in Tasks(i) |->
        IF resp[i][k].state = "error"
        THEN <<>>
        ELSE TagHits(resp[i][k].hits, tasks[i][k])]

\* C2: whichever tiers fail, each failed tier contributes the empty list, the
\* result is the aggregation of the other tiers' hits, and neither
\* search_company nor process_batch raises.
C2_FailedTierIsEmpty ==
    /\ pc # "raised"
    /\ \A i \in Names :
          /\ status[i] # "raised"
          /\ \A k \in Tasks(i) :
                resp[i][k].state = "error" =>
                    tier_out[i][k] = [state |-> "returned", hits |-> <<>>]
          /\ Returned(i) =>
                result[i] = <<SearchResult(company_names[i], HitsWithoutFailed(i))>>

\* a search that returned a match although two of its tiers failed
C2_Witness ==
    \E i \in Names :
        /\ Returned(i)
        /\ result[i][1].match_found
        /\ Cardinality({k \in Tasks(i) : resp[i][k].state = "error"}) >= 2

\* C3: process_batch returns one result per input name, the i-th being the
\* result search_company returned for the i-th name, whatever the order in
\* which the names and their tier queries finished.
C3_BatchOrderPreserved ==
    /\ pc # "raised"
    /\ pc = "returned" =>
          /\ Len(batch_result) = Len(company_names)
          /\ \A i \in Names :
                /\ batch_result[i] = result[i][1]
                /\ batch_result[i].input_name = company_names[i]

\* a batch of two different names whose second name finished first
C3_Witness ==
    /\ pc = "returned"
    /\ Len(company_names) = 2
    /\ company_names[1] # company_names[2]
    /\ completion = <<2, 1>>
    /\ batch_result[1].match_found
    /\ batch_result[2].match_found

\* the result of a name when every tier answers from the reference index
IndexResult(raw_name) ==
    LET cn == clean_text(raw_name)
        ph == get_phonetic(cn)
        tiers == TaskTiers(ph)
    IN  SearchResult(raw_name,
            [k \in 1..Len(tiers) |->
                TagHits(IndexSearch(tiers[k], QueryText(tiers[k], cn, ph)),
                        tiers[k])])

\* C4: when the backend is down for one name of a batch, the batch still
\* returns a result for every name: not-found for that name, and for every
\* other name the result it has when nothing fails.
C4_OutageIsolated ==
    /\ pc # "raised"
    /\ pc = "returned" =>
          /\ Len(batch_result) = Len(company_names)
          /\ \A i \in Names :
                /\ backend[i] = "down" => ~batch_result[i].match_found
                /\ backend[i] = "index" =>
                      batch_result[i] = IndexResult(company_names[i])

\* a returned batch of two names, the backend down for the first only
C4_Witness ==
    /\ pc = "returned"
    /\ Len(company_names) = 2
    /\ backend[1] = "down"
    /\ ~batch_result[1].match_found
    /\ batch_result[2].match_found

\* C5: the result of search_company is a function of the hit lists the tiers
\* returned, taken in task order; the order in which they finished is no
\* part of it.
C5_OrderIndependent ==
    \A i \in Names : Returned(i) =>
        /\ AllTiersDone(i)
        /\ LET r == SearchResult(company_names[i],
                       [k \in Tasks(i) |->
                           TagHits(resp[i][k].hits, tasks[i][k])])
           IN  /\ result[i][1].match_found = r.match_found
               /\ result[i][1].confidence = r.confidence
               /\ r.match_found =>
                     /\ result[i][1].domain = r.domain
                     /\ result[i][1].tier = r.tier
                     /\ result[i][1].candidates_found = r.candidates_found

\* a returned search in which two tiers returned hits for different domains
C5_Witness ==
    \E i \in Names :
        /\ Returned(i)
        /\ result[i][1].match_found
        /\ result[i][1].candidates_found = 2
        /\ \E k1, k2 \in Tasks(i) :
              /\ k1 # k2
              /\ Len(resp[i][k1].hits) = 1
              /\ Len(resp[i][k2].hits) = 1

\* the hits of name i in the order the aggregation loops visit them
LoopHits(i) == Flatten(ResultsList(i))

\* the first hit a task of the given tier returned for the domain
FirstHitOf(i, tier, domain) ==
    LET k == CHOOSE k \in Tasks(i) : tasks[i][k] = tier
        n == CHOOSE n \in 1..Len(tier_out[i][k].hits) :
                /\ tier_out[i][k].hits[n].DOMAIN_NAME = domain
                /\ \A m \in 1..(n - 1) :
                      tier_out[i][k].hits[m].DOMAIN_NAME # domain
    IN  tier_out[i][k].hits[n]

TierReturned(i, tier, domain) ==
    \E k \in TasksReturning(i, domain) : tasks[i][k] = tier

\* C6: a recorded candidate is never changed by a later hit: at every step
\* of the aggregation loops the candidates recorded so far stay as they are;
\* a domain returned by Tier 1 and Tier 3 keeps Tier 1 and the Tier 1 score.
C6_FirstSeenWins ==
    \A i \in Names : Gathered(i) =>
        /\ \A n \in 1..Len(LoopHits(i)) :
              LET before == CandidatesAfter(LoopHits(i), n - 1)
                  after == CandidatesAfter(LoopHits(i), n)
              IN  /\ Len(after) >= Len(before)
                  /\ \A m \in 1..Len(before) : after[m] = before[m]
        /\ \A m \in CandidateIndexes(i) :
              LET c == Candidates(i)[m]
              IN  (/\ TierReturned(i, Tier1, c.DOMAIN_NAME)
                   /\ TierReturned(i, Tier3, c.DOMAIN_NAME))
                  => /\ c._match_tier = Tier1
                     /\ c._match_score =
                            MatchScore(FirstHitOf(i, Tier1, c.DOMAIN_NAME))

\* Tier 1 and Tier 3 returned the same domain, the Tier 3 hit would score
\* higher, and the candidate has the Tier 1 score
C6_Witness ==
    \E i \in Names :
        /\ Returned(i)
        /\ \E m \in CandidateIndexes(i) :
              LET c == Candidates(i)[m]
              IN  /\ TierReturned(i, Tier1, c.DOMAIN_NAME)
                  /\ TierReturned(i, Tier3, c.DOMAIN_NAME)
                  /\ MatchScore(FirstHitOf(i, Tier3, c.DOMAIN_NAME))
                        > MatchScore(FirstHitOf(i, Tier1, c.DOMAIN_NAME))
                  /\ c._match_tier = Tier1
                  /\ result[i][1].confidence = c._match_score

\* C7: the winner has the highest confidence of all candidates, and among
\* candidates of that confidence its tier comes first in the priority order
\* 1, 2, 7, 3, 4, 5.
C7_WinnerByPriority ==
    \A i \in Names : (Returned(i) /\ result[i][1].match_found) =>
        \A m \in CandidateIndexes(i) :
            LET c == Candidates(i)[m]
            IN  /\ c._match_score <= result[i][1].confidence
                /\ (/\ c._match_score = result[i][1].confidence
                    /\ c.DOMAIN_NAME # result[i][1].domain)
                   => PriorityRank(result[i][1].tier) <= PriorityRank(c._match_tier)

\* the table of the specification, in half-points
ClaimedBase(tier) ==
    CASE tier = Tier1 -> 190
      [] tier = Tier2 -> 180
      [] tier = Tier7 -> 176
      [] tier = Tier3 -> 160
      [] tier = Tier4 -> 150
      [] tier = Tier5 -> 140

ClaimedBoost(emps) ==
    IF emps = <<>> THEN 0
    ELSE IF emps[1] > 10000 THEN 20
    ELSE IF emps[1] > 1000 THEN 10
    ELSE 0

ClaimedQuality(quality) == IF quality = <<>> THEN 0 ELSE quality[1]

\* C8: every candidate's confidence is min(100, tierBase + quality/2 + boost)
\* with the bases 95, 90, 88, 80, 75, 70, the boost 10 above 10000 employees,
\* 5 above 1000, and 0 for a missing count or score; none exceeds 100.
C8_ConfidenceFormula ==
    \A i \in Names : Gathered(i) =>
        \A m \in CandidateIndexes(i) :
            LET c == Candidates(i)[m]
                raw == ClaimedBase(c._match_tier)
                         + ClaimedQuality(c.metadata_quality_score)
                         + ClaimedBoost(c.EMPLOYEE_COUNT)
            IN  /\ c._match_score = (IF raw > 200 THEN 200 ELSE raw)
                /\ c._match_score <= 200

\* candidates with the boost of 5, with no boost at exactly 1000 employees,
\* with missing count and score, and with a capped score
C8_Witness ==
    \E i \in Names :
        /\ Returned(i)
        /\ \E m \in CandidateIndexes(i) :
              LET c == Candidates(i)[m]
              IN  /\ c.EMPLOYEE_COUNT = <<10000>>
                  /\ c._match_tier = Tier5
                  /\ c._match_score = 140 + 20 + 10
        /\ \E m \in CandidateIndexes(i) :
              LET c == Candidates(i)[m]
              IN  /\ c.EMPLOYEE_COUNT = <<10001>>
                  /\ c._match_tier = Tier7
                  /\ c._match_score = 200

\* C9, as claimed: every reported confidence is a whole number from 0 to 100.
C9_ConfidenceIsInteger ==
    \A i \in Names : Returned(i) =>
        /\ IsWholeNumber(result[i][1].confidence)
        /\ result[i][1].confidence >= 0
        /\ result[i][1].confidence <= 200

\* the candidate search_company returns as the best match
Winner(i) == SortedCandidates(Candidates(i))[1]

\* C9, amended: every reported confidence is a number from 0 to 100 in steps
\* of one half; that of a match is at least 70, and it is a whole number
\* exactly when the winning hit's quality score is even or missing, or the
\* score reached the cap of 100.
C9_ConfidenceInHalves ==
    \A i \in Names : Returned(i) =>
        /\ result[i][1].confidence >= 0
        /\ result[i][1].confidence <= 200
        /\ result[i][1].match_found =>
              /\ result[i][1].confidence >= 140
              /\ IsWholeNumber(result[i][1].confidence)
                    <=> \/ ClaimedQuality(Winner(i).metadata_quality_score) % 2 = 0
                        \/ result[i][1].confidence = 200

\* a Tier 1 match whose hit has quality score 5: confidence 97.5
C9_Witness ==
    \E i \in Names :
        /\ Returned(i)
        /\ result[i][1].match_found
        /\ result[i][1].tier = Tier1
        /\ result[i][1].confidence = 195

NoHitWithDomain(i) ==
    \A k \in Tasks(i) : \A n \in 1..Len(tier_out[i][k].hits) :
        tier_out[i][k].hits[n].DOMAIN_NAME = ""

\* C10, as claimed: with no hit that has a domain the result has
\* match_found = false, confidence = 0 and candidates_found = 0.
C10_NotFoundWithCount ==
    \A i \in Names : (Returned(i) /\ NoHitWithDomain(i)) =>
        /\ result[i][1].match_found = FALSE
        /\ result[i][1].confidence = 0
        /\ "candidates_found" \in DOMAIN result[i][1]
        /\ result[i][1].candidates_found = 0

\* C10, amended: with no hit that has a domain the result has
\* match_found = false and confidence = 0, no candidate was recorded, and the
\* result has no candidates_found entry (its keys are input_name,
\* match_found, confidence and details).
C10_NotFound ==
    \A i \in Names : (Returned(i) /\ NoHitWithDomain(i)) =>
        /\ result[i][1].match_found = FALSE
        /\ result[i][1].confidence = 0
        /\ Candidates(i) = <<>>
        /\ DOMAIN result[i][1] =
              {"input_name", "match_found", "confidence", "details"}

\* a not-found result after a tier returned a hit without a domain and
\* another tier failed
C10_Witness ==
    \E i \in Names :
        /\ Returned(i)
        /\ NoHitWithDomain(i)
        /\ \E k \in Tasks(i) : Len(tier_out[i][k].hits) > 0
        /\ \E k \in Tasks(i) : resp[i][k].state = "error"
        /\ ~result[i][1].match_found

\* the name of search i is non-text, missing, or normalizes to the empty string
NormalizesToEmpty(i) == clean_name(i) = <<>>

\* C11: for a name that is non-text, missing, or normalizes to the empty
\* string, search_company does not raise and returns a not-found result,
\* whatever the backend returned.
C11_EmptyNameNotFound ==
    \A i \in Names : NormalizesToEmpty(i) =>
        /\ status[i] # "raised"
        /\ Returned(i) => result[i][1].match_found = FALSE

\* the domains of the hits Tier 1 returned for name i
Tier1Domains(i) ==
    {d \in {c.DOMAIN_NAME : c \in {Candidates(i)[m] : m \in CandidateIndexes(i)}} :
        TierReturned(i, Tier1, d)}

\* the candidate recorded for a domain
CandidateOf(i, domain) ==
    Candidates(i)[CHOOSE m \in CandidateIndexes(i) :
                      Candidates(i)[m].DOMAIN_NAME = domain]

\* C12, as claimed: whenever Tier 1 returns a hit with a domain, the result
\* has match_found = true, tier Tier 1 and a confidence between 95 and 100,
\* whatever the other tiers return.
C12_Tier1AlwaysWins ==
    \A i \in Names : (Returned(i) /\ Tier1Domains(i) # {}) =>
        /\ result[i][1].match_found
        /\ result[i][1].tier = Tier1
        /\ result[i][1].confidence >= 190
        /\ result[i][1].confidence <= 200

\* C12, amended: whenever Tier 1 returns a hit with a domain, the result has
\* match_found = true and a confidence between 95 and 100, at least the
\* score of the Tier 1 candidate; its tier is Tier 1 (and its domain the
\* Tier 1 domain) exactly when no candidate of another tier has a strictly
\* higher score than the Tier 1 candidate.
C12_Tier1Match ==
    \A i \in Names : (Returned(i) /\ Tier1Domains(i) # {}) =>
        \A d \in Tier1Domains(i) :
            LET t1 == CandidateOf(i, d)
                beaten == \E m \in CandidateIndexes(i) :
                              Candidates(i)[m]._match_score > t1._match_score
            IN  /\ t1._match_tier = Tier1
                /\ result[i][1].match_found
                /\ result[i][1].confidence >= 190
                /\ result[i][1].confidence <= 200
                /\ result[i][1].confidence >= t1._match_score
                /\ ~beaten => /\ result[i][1].tier = Tier1
                              /\ result[i][1].domain = d
                /\ beaten => /\ result[i][1].tier # Tier1
                             /\ result[i][1].domain # d
                             /\ result[i][1].confidence > t1._match_score

\* Tier 1 returned a domain, another tier returned a different domain whose
\* score is not higher, and the result is the Tier 1 match
C12_Witness ==
    \E i \in Names : \E d \in Tier1Domains(i) :
        /\ Returned(i)
        /\ Len(Candidates(i)) = 2
        /\ result[i][1].tier = Tier1
        /\ result[i][1].domain = d
        /\ result[i][1].confidence < 200

\* C13: for every input string the phonetic code of the query path
\* (get_phonetic of clean_text of the name) equals the code each
\* index-building path computes for the same text (simple_phonetic).
C13_PhoneticAgrees ==
    (row # <<>> /\ row.COMPANY_NAME_CLEANED.kind = "str" /\ derived.query # <<>>) =>
        /\ derived.chunk # <<>> =>
              derived.query[1].phonetic_code = derived.chunk[1].company_phonetic
        /\ derived.dataframe # <<>> =>
              derived.query[1].phonetic_code = derived.dataframe[1].company_phonetic

\* lowercase, 7-bit ASCII only, no leading or trailing whitespace
IsNormalized(s) ==
    /\ Lower(s) = s
    /\ AsciiOnly(s) = s
    /\ Strip(s) = s

\* C14: every normalizer (clean_text of the query path, clean_text_basic of
\* the two index-building paths) returns, for a text input, a string that is
\* lowercase, 7-bit ASCII only and without leading or trailing whitespace,
\* and the empty string for an input that is not a string.
C14_NormalizersNormalize ==
    row # <<>> =>
        LET text == row.COMPANY_NAME_CLEANED
            outputs ==
                {derived.query[n].clean_name : n \in 1..Len(derived.query)}
                \cup {derived.chunk[n].company_name_cleaned_ascii :
                         n \in 1..Len(derived.chunk)}
                \cup {derived.dataframe[n].company_name_cleaned_ascii :
                         n \in 1..Len(derived.dataframe)}
        IN  \A out \in outputs :
                /\ IsNormalized(out)
                /\ text.kind # "str" => out = <<>>

\* present, in the rule table: not null/NaN and not the empty string
Present(v) == v.kind # "none" /\ ~(v.kind = "str" /\ v.chars = <<>>)

\* the quality score of the rule table
RuleTableScore(r) ==
    SourcePoints(r.SOURCE)
    + (IF Present(r.EMPLOYEE_COUNT) /\ r.EMPLOYEE_COUNT.n > 0 THEN 10 ELSE 0)
    + (IF Present(r.INDUSTRY_CAT_STD) THEN 5 ELSE 0)
    + (IF Present(r.COUNTRY) THEN 2 ELSE 0)
    + (IF Present(r.SIZE_DESC_STD) THEN 3 ELSE 0)
    + (IF Present(r.LAST_SEEN_DATE) \/ Present(r.DATE_LAST_VERIFIED)
       THEN 5 ELSE 0)

\* C15: in both enrichers the quality score of every record is the sum of
\* the rule table (source 20/15/10, positive employee count 10, industry 5,
\* country 2, size 3, last-seen or last-verified 5; present = not NaN and
\* not the empty string), so it is within 0..45, and a record with PDL
\* source, positive employee count, industry, country, size and a
\* verification date scores 45.
C15_QualityScore ==
    row # <<>> =>
        \A q \in {derived.chunk[n].metadata_quality_score :
                     n \in 1..Len(derived.chunk)}
                 \cup {derived.dataframe[n].metadata_quality_score :
                          n \in 1..Len(derived.dataframe)} :
            /\ q = RuleTableScore(row)
            /\ q \in 0..45
            /\ (/\ Contains(SourceUpper(row.SOURCE), PDL)
                /\ Present(row.EMPLOYEE_COUNT) /\ row.EMPLOYEE_COUNT.n > 0
                /\ Present(row.INDUSTRY_CAT_STD)
                /\ Present(row.COUNTRY)
                /\ Present(row.SIZE_DESC_STD)
                /\ Present(row.DATE_LAST_VERIFIED)) => q = 45

\* every get_ngrams call made on the record: <<text, min_len, max_len, grams>>
NgramCalls ==
    {<<row.DOMAIN_PART, derived.ngrams[n].min_len, derived.ngrams[n].max_len,
       derived.ngrams[n].grams>> : n \in 1..Len(derived.ngrams)}
    \cup {<<row.DOMAIN_PART, DefaultMinLen, DefaultMaxLen,
            derived.chunk[n].domain_parts_ngram>> : n \in 1..Len(derived.chunk)}
    \cup {<<row.DOMAIN_PART, DefaultMinLen, DefaultMaxLen,
            derived.dataframe[n].domain_parts_ngram>> :
             n \in 1..Len(derived.dataframe)}

\* what the n-gram rule gives for a normalized text
PrefixRule(norm, min_len, max_len, grams) ==
    IF Len(norm) < min_len
    THEN grams = <<norm>>
    ELSE /\ Len(grams) = Min(Len(norm), max_len) - min_len + 1
         /\ \A n \in 1..Len(grams) : grams[n] = SubSeq(norm, 1, min_len + n - 1)
         /\ \A n \in 1..(Len(grams) - 1) : Len(grams[n]) < Len(grams[n + 1])
         /\ grams[Len(grams)] = SubSeq(norm, 1, Min(Len(norm), max_len))

\* C16, as claimed: for every input text get_ngrams returns the one-element
\* sequence holding the normalized text when its length is below minLen
\* (length 0 included), otherwise the prefixes of lengths minLen up to
\* min(length, maxLen), strictly increasing, the last one the normalized
\* text truncated at maxLen.
C16_NgramsOfEveryText ==
    row # <<>> =>
        \A c \in NgramCalls :
            c[1].kind = "str" =>
                PrefixRule(clean_text_basic(c[1]), c[2], c[3], c[4])

\* C16, amended: the rule holds for every non-empty input text (also one
\* that normalizes to the empty string, which gives the one-element sequence
\* holding the empty string); for the empty text, and for an input that is
\* not a string, get_ngrams returns the empty sequence.
C16_Ngrams ==
    row # <<>> =>
        \A c \in NgramCalls :
            IF c[1].kind = "str" /\ c[1].chars # <<>>
            THEN PrefixRule(clean_text_basic(c[1]), c[2], c[3], c[4])
            ELSE c[4] = <<>>

\* a call whose normalized text is longer than max_len: the prefixes stop at
\* max_len and the last one is the truncated text
C16_Witness ==
    /\ row # <<>>
    /\ \E c \in NgramCalls :
          /\ c[1].kind = "str"
          /\ Len(clean_text_basic(c[1])) > c[3]
          /\ Len(c[4]) = c[3] - c[2] + 1
          /\ c[4][Len(c[4])] = SubSeq(clean_text_basic(c[1]), 1, c[3])

\* the searches search_company sent for name i: one per entry of resp[i]
SearchesSent(i) == Len(resp[i])

\* C17, state part: a call sends one search per tier, each tier at most once:
\* 6 searches when the phonetic code is not empty, 5 (none for Tier 4) when
\* it is empty; and the call has returned only if every search has returned
\* or failed.
C17_SearchesPerCall ==
    \A i \in Names : tasks[i] # <<>> =>
        /\ SearchesSent(i) = Len(tasks[i])
        /\ \A k1, k2 \in Tasks(i) : tasks[i][k1] = tasks[i][k2] => k1 = k2
        /\ phonetic_code(i) # <<>> =>
              /\ SearchesSent(i) = 6
              /\ \E k \in Tasks(i) : tasks[i][k] = Tier4
        /\ phonetic_code(i) = <<>> =>
              /\ SearchesSent(i) = 5
              /\ \A k \in Tasks(i) : tasks[i][k] # Tier4
        /\ status[i] # "waiting" =>
              \A k \in Tasks(i) : resp[i][k].state # "pending"

\* C17, step part: a search that has returned or failed is never sent again
\* (its answer stays what it was), and no task is added to a call in
\* progress.
C17_NoRetryStep ==
    \A i \in Names :
        /\ tasks[i] # <<>> => tasks'[i] = tasks[i]
        /\ \A k \in DOMAIN resp[i] :
              resp[i][k].state # "pending" => resp'[i][k] = resp[i][k]

\* C17: during one search_company call each tier sends at most one search,
\* also after that search failed (no retry): exactly 6 searches when the
\* phonetic code of the name is not empty and exactly 5 when it is empty,
\* and aggregation starts only after all of them have returned or failed.
C17_OneSearchPerTier == [](C17_SearchesPerCall) /\ [][C17_NoRetryStep]_all_vars

\* a call for a name with a phonetic code has returned after its Tier 1
\* search failed: 6 searches were sent, none twice
C17_Witness ==
    \E i \in Names :
        /\ Returned(i)
        /\ phonetic_code(i) # <<>>
        /\ SearchesSent(i) = 6
        /\ resp[i][1].state = "error"
        /\ \E k \in Tasks(i) : resp[i][k].state = "hits"

\* the longest one iteration of the wait loop can take
LongestPoll == PollSleep + MaxCallSeconds + ErrorSleep

\* C18: the wait loop of load_companies always ends, whatever the backend
\* does: once the document count has stopped growing, or while get_stats
\* keeps failing, the loop is left within the no-progress timeout and one
\* more poll; and it is not left on the no-progress timeout while the
\* document count is still growing (the count grew within the timeout).
C18_WaitLoopEnds ==
    /\ wait_pc = "waiting" =>
          now - last_growth <= NoProgressTimeout + LongestPoll
    /\ wait_pc = "timeout" =>
          now - last_growth > NoProgressTimeout

====
